---- MODULE Spec2Model ----
(***************************************************************************)
(* A model of MCEq.core.MCEqRun (src/MCEq/core.py): the life cycle of a    *)
(* run instance (construction, configuration calls, solve), the observer / *)
(* alias tables, the integration-path planner with its memoization, the    *)
(* two integrator modes, get_solution and the decay-chain resolver.        *)
(*                                                                         *)
(* Depths are fixed-point numbers: one unit is 1/Scale g/cm^2, so that     *)
(* 1. / (max_ldec * ri_x) is the integer Scale \div (max_ldec * ri_x).     *)
(* Python's None is <<>> and a present value x is <<x>> wherever an        *)
(* attribute holds "None or a value"; a zenith angle of None is NoAngle.   *)
(***************************************************************************)
EXTENDS Integers, Sequences, FiniteSets, TLC

VARIABLES
    phase,   \* "new" before the constructor ran, "ready" after it returned,
             \* "failed" when it raised (no instance exists then)
    run,     \* the MCEqRun instance: one field per attribute of self
    call,    \* the call made last on the instance: its name, arguments,
             \* the exception it raised ("ok" if none) and what it executed
    ncalls,  \* the number of calls made so far, the constructor included
    stack    \* the frames of _fill_matrices and _follow_chains in progress,
             \* the innermost last

vars == <<phase, run, call, ncalls, stack>>

-----------------------------------------------------------------------------
(* Values *)

None == <<>>
Some(x) == <<x>>

\* theta_deg = None
NoAngle == -1

\* the zenith angles a caller passes (degrees)
Angles == {0, 60}

\* fixed-point scale of depths
Scale == 20

\* the PDG ids of the leptons an alias or observer entry is made for
LeptonIds == {12, 13, 14, 16}

-----------------------------------------------------------------------------
(* The particle tables (ParticleDataTool / MCEq.data), a small catalog:    *)
(* proton, neutron, pi+, K+, D+ (the mesons are mixed: resonances at low   *)
(* energy), eta (pure resonance), mu+, numu, antinumu and the alias species pi_,    *)
(* k_, pr_, obs_ of the leptons.                                           *)

Hadrons == {2212, 2112, 211, 321, 411, 221}
Leptons == {-13, 14, -14}
Aliases == {-7113, 7114, -7114, -7213, 7214, -7214, -7013, 7014, -7014,
            -7313, 7314, -7314}

\* modtab.baryons + modtab.mesons + modtab.leptons
CatalogIds == Hadrons \cup Leptons \cup Aliases

Abs(x) == IF x < 0 THEN -x ELSE x
Sign(x) == IF x < 0 THEN -1 ELSE IF x > 0 THEN 1 ELSE 0

\* the lepton an alias species stands for, keeping the sign
AliasBase(a) == Sign(a) * (Abs(a) % 100)

\* NCEParticle.E_crit, as a rank: stable 0, mu 1, pi 2, K 3, D 4, eta 5
E_crit(pdg) ==
    CASE Abs(pdg) = 2212 -> 0
      [] Abs(pdg) = 211  -> 2
      [] Abs(pdg) = 321  -> 3
      [] Abs(pdg) = 411  -> 4
      [] Abs(pdg) = 221  -> 5
      [] Abs(pdg) \in {13, 7013, 7113, 7213, 7313} -> 1
      [] OTHER -> 0

is_lepton(pdg) == pdg \in Leptons \cup Aliases
is_alias(pdg) == pdg \in Aliases
is_resonance(pdg) == pdg = 221
is_mixed(pdg) == pdg \in {211, 321, 411}
is_projectile(pdg) == pdg \in {2212, 211}

\* _gen_list_of_particles, core.py 218-254: the particles sorted by E_crit,
\* the resonances moved behind the cascade particles
cascade_particles ==
    <<2212, 2112, 14, -14, 7014, -7014, 7114, -7114, 7214, -7214, 7314, -7314,
      -13, -7013, -7113, -7213, -7313, 211, 321, 411>>
resonances == <<221>>
particle_species == cascade_particles \o resonances

\* self.d, the number of energy bins, and e_grid
d == 2
e_grid == [k \in 1..d |-> k + 1]

\* line 147
dim_states == d * Len(cascade_particles)

\* NCEParticle.lidx() and uidx() of a cascade particle
lidx(pdg) == (CHOOSE i \in 1..Len(cascade_particles) :
                  cascade_particles[i] = pdg) * d - d
uidx(pdg) == lidx(pdg) + d

\* ds.daughters(p), the decay channels, and p.secondaries, the yields (a
\* projectile is among its own secondaries: p + air -> p + X)
daughters(pdg) ==
    CASE pdg = 211 -> <<-13, 14>>
      [] pdg = 321 -> <<-13, 14, 211>>
      [] pdg = 411 -> <<-13, 14, 321>>
      [] pdg = 221 -> <<211>>
      [] pdg = -13 -> <<-14>>
      [] OTHER -> <<>>

secondaries(pdg) ==
    CASE pdg = 2212 -> <<2212, 211, 321, 411, 221>>
      [] pdg = 211 -> <<211, 221>>
      [] OTHER -> <<>>

\* SibyllParticleTable.modname2pdg, and int() of the digit strings used
modname2pdg == [n \in {"pi+", "K+", "D+"} |->
                   CASE n = "pi+" -> 211 [] n = "K+" -> 321 [] OTHER -> 411]
IntLiterals == [n \in {"211", "321", "9999"} |->
                   CASE n = "211" -> 211 [] n = "321" -> 321 [] OTHER -> 9999]

-----------------------------------------------------------------------------
(* The atmosphere object (MCEq.density_profiles): a density model and the  *)
(* zenith angle it was last set to.  A new object has no angle yet; its    *)
(* surface depth and inverse density exist once set_theta has run.         *)

AtmKinds == {"CORSIKA", "MSIS00"}

NewAtmosphere(kind) == [kind |-> kind, theta_deg |-> NoAngle]

\* atm_model.X_surf
X_surf(atm) ==
    CASE atm.kind = "CORSIKA" /\ atm.theta_deg = 0 -> 30
      [] atm.kind = "CORSIKA" -> 45
      [] atm.kind = "MSIS00" /\ atm.theta_deg = 0 -> 35
      [] OTHER -> 50

\* atm_model.r_X2rho(X): the inverse density falls with depth
r_X2rho(atm, X) ==
    LET t == CASE atm.kind = "CORSIKA" /\ atm.theta_deg = 0 -> <<4, 20>>
               [] atm.kind = "CORSIKA" -> <<6, 30>>
               [] atm.kind = "MSIS00" /\ atm.theta_deg = 0 -> <<6, 16>>
               [] OTHER -> <<9, 24>>
    IN  IF X < t[1] THEN 5 ELSE IF X < t[2] THEN 2 ELSE 1

\* np.max(Lambda_dec), the same for every interaction model
MaxLdec == 2

-----------------------------------------------------------------------------
(* The path planner's loop, core.py 986-1017 *)

\* np.any(int_grid)
NpAny(int_grid) ==
    /\ int_grid # None
    /\ \E i \in 1..Len(int_grid[1]) : int_grid[1][i] # 0

\* np.alltrue(a == b) for a, b each None or a non-empty array: equal shapes
\* compare element by element, a one-element array is broadcast against
\* the other, other shapes do not compare (False)
GridEq(a, b) ==
    IF a = None \/ b = None THEN a = None /\ b = None
    ELSE LET x == a[1]
             y == b[1]
         IN  IF Len(x) = Len(y) THEN \A i \in 1..Len(x) : x[i] = y[i]
             ELSE IF Len(x) = 1 THEN \A i \in 1..Len(y) : y[i] = x[1]
             ELSE IF Len(y) = 1 THEN \A i \in 1..Len(x) : x[i] = y[1]
             ELSE FALSE

\* a loop body that records the snapshot index without shortening the step
PathStep_no_clip(atm, max_ldec, int_grid, st) ==
    LET ri_x == r_X2rho(atm, st.X)
        dX0 == Scale \div (max_ldec * ri_x)
        snap == /\ NpAny(int_grid)
                /\ st.grid_step < Len(int_grid[1])
                /\ st.X + dX0 >= int_grid[1][st.grid_step + 1]
    IN  [X           |-> st.X + dX0,
         step        |-> st.step + 1,
         grid_step   |-> IF snap THEN st.grid_step + 1 ELSE st.grid_step,
         dX_vec      |-> Append(st.dX_vec, dX0),
         rho_inv_vec |-> Append(st.rho_inv_vec, ri_x),
         grid_idcs   |-> IF snap THEN Append(st.grid_idcs, st.step)
                                 ELSE st.grid_idcs]

\* one pass of the while body, lines 998-1009
PathStep(atm, max_ldec, int_grid, st) ==
    LET ri_x == r_X2rho(atm, st.X)
        dX0 == Scale \div (max_ldec * ri_x)
        snap == /\ NpAny(int_grid)
                /\ st.grid_step < Len(int_grid[1])
                /\ st.X + dX0 >= int_grid[1][st.grid_step + 1]
        dX == IF snap THEN int_grid[1][st.grid_step + 1] - st.X ELSE dX0
    IN  [X           |-> st.X + dX,
         step        |-> st.step + 1,
         grid_step   |-> IF snap THEN st.grid_step + 1 ELSE st.grid_step,
         dX_vec      |-> Append(st.dX_vec, dX),
         rho_inv_vec |-> Append(st.rho_inv_vec, ri_x),
         grid_idcs   |-> IF snap THEN Append(st.grid_idcs, st.step)
                                 ELSE st.grid_idcs]

RECURSIVE PathLoop(_, _, _, _)
PathLoop(atm, max_ldec, int_grid, st) ==
    IF st.X < X_surf(atm)
    THEN PathLoop(atm, max_ldec, int_grid, PathStep(atm, max_ldec, int_grid, st))
    ELSE st

\* lines 982-1017: the tuple (nsteps, dX, rho_inv, grid_idcs) stored in
\* integration_path
ComputePath(atm, max_ldec, int_grid) ==
    LET st == PathLoop(atm, max_ldec, int_grid,
                       [X |-> 0, step |-> 0, grid_step |-> 0, dX_vec |-> <<>>,
                        rho_inv_vec |-> <<>>, grid_idcs |-> <<>>])
    IN  <<Len(st.dX_vec), st.dX_vec, st.rho_inv_vec, st.grid_idcs>>

-----------------------------------------------------------------------------
(* The instance and the outcome of a method.  run.defined is the set of    *)
(* attributes assigned so far: reading any other one is an AttributeError. *)
(* Attributes assigned together by straight-line code are tracked by one   *)
(* of them: "y" for lines 68-102 (with atm_config and theta_deg),          *)
(* "pdg2pref" for lines 110-152 (with particle_species and dim_states),    *)
(* "Lambda_dec" for lines 551-552 (with Lambda_int and max_ldec), "int_m"  *)
(* for lines 346-348 (with dec_m), "phi0" for lines 593-610, "int_grid"    *)
(* for line 977 (with grid_var), "C" for lines 817-818 (with D).           *)
(* A method yields the instance as it leaves it (an exception keeps what   *)
(* was assigned before the raise), the exception raised or "ok", and the   *)
(* code it executed: "path_computed" (lines 982-1017), "kernel" (the       *)
(* stepping kernel was invoked), "set_theta" (atm_model.set_theta ran),    *)
(* "theta_cached" (the early return at 751-753), "matrices" (lines         *)
(* 343-353 ran to the end).                                                *)

Ok(s) == [run |-> s, err |-> "ok", ev |-> {}]
Raise(s, e) == [run |-> s, err |-> e, ev |-> {}]
Did(o, e) == [o EXCEPT !.ev = @ \cup {e}]

\* o, then F on the instance o left, unless o raised
Then(o, F(_)) ==
    IF o.err # "ok" THEN o
    ELSE LET n == F(o.run) IN [n EXCEPT !.ev = @ \cup o.ev]

Has(s, attrs) == attrs \subseteq s.defined
Define(s, attrs) == [s EXCEPT !.defined = @ \cup attrs]

\* the instance before __init__ assigned anything
Blank ==
    [defined          |-> {},
     atm_config       |-> None,
     theta_deg        |-> NoAngle,
     atm_model        |-> NewAtmosphere("CORSIKA"),
     obs_ids          |-> None,
     alias_table      |-> <<>>,
     obs_table        |-> <<>>,
     y_model          |-> "none",
     max_ldec         |-> 0,
     int_m            |-> None,
     dec_m            |-> None,
     delay_pmod_init  |-> FALSE,
     phi0             |-> None,
     integration_path |-> None,
     int_grid         |-> None,
     grid_var         |-> "none",
     solution         |-> None,
     grid_sol         |-> None,
     C                |-> <<>>,
     D                |-> <<>>]

-----------------------------------------------------------------------------
(* _init_alias_tables, core.py 256-295 *)

\* lines 273-278
prompt_ids ==
    {p \in CatalogIds : /\ ~(is_lepton(p) \/ is_alias(p) \/ p < 0)
                        /\ E_crit(p) >= E_crit(411)}

\* alias_table and obs_table get, for a mother, the four entries
\* (mother, lep_id) : base + lep_id of the lep_id in LeptonIds together;
\* such a dict is held as the function mother :> base
TableKeys(table) == (DOMAIN table) \X LeptonIds
TableGet(table, key) == table[key[1]] + key[2]

\* lines 279-283
AliasTable ==
    [m \in {211, 321} \cup prompt_ids |->
        CASE m = 211 /\ m \notin prompt_ids -> 7100
          [] m = 321 /\ m \notin prompt_ids -> 7200
          [] OTHER -> 7000]

\* lines 287-295: the observer entries of the obs_ids found in pdg2pref
ObsTable(obs_ids) ==
    LET ids == IF obs_ids = None THEN {}
               ELSE {obs_ids[1][i] : i \in 1..Len(obs_ids[1])} \cap CatalogIds
    IN  [m \in ids |-> 7300]

_init_alias_tables(s) ==
    LET s1 == [Define(s, {"alias_table"}) EXCEPT !.alias_table = <<>>]
    IN  IF ~Has(s1, {"pdg2pref"})
        THEN Raise(s1, "AttributeError")
        ELSE LET s2 == [Define(s1, {"obs_table"}) EXCEPT
                           !.alias_table = AliasTable, !.obs_table = <<>>]
             IN  IF ~Has(s2, {"obs_ids"}) THEN Raise(s2, "AttributeError")
                 ELSE Ok([s2 EXCEPT !.obs_table = ObsTable(s.obs_ids)])

-----------------------------------------------------------------------------
(* _init_default_matrices, core.py 329-376.  An operator is recorded by    *)
(* what _fill_matrices built it from: the observer routing (the alias      *)
(* routing is the same for every build), the yields of the interaction     *)
(* model, and its representation.                                          *)

Operator(s, cfg) ==
    [obs_table |-> s.obs_table, yields |-> s.y_model, sparse |-> cfg.use_sparse]

_init_default_matrices(s, cfg) ==
    IF ~Has(s, {"pdg2pref", "y", "alias_table", "obs_table"})
    THEN Raise(s, "AttributeError")
    ELSE LET s1 == Define(s, {"C"})
         IN  IF ~Has(s1, {"Lambda_dec"}) THEN Raise(s1, "AttributeError")
             ELSE Did(Ok([s1 EXCEPT
                            !.defined = (@ \cup {"int_m"}) \ {"C"},
                            !.int_m = Some(Operator(s, cfg)),
                            !.dec_m = Some(Operator(s, cfg))]),
                      "matrices")

-----------------------------------------------------------------------------
(* set_obs_particles, core.py 500-525 *)

\* lines 514-518: int(obs_id), or the table of names when that fails
ConvertObsId(obs_id) ==
    IF obs_id \in DOMAIN IntLiterals THEN IntLiterals[obs_id]
    ELSE modname2pdg[obs_id]

set_obs_particles(s, obs_ids, cfg) ==
    IF obs_ids = None
    THEN Ok([Define(s, {"obs_ids"}) EXCEPT !.obs_ids = None])
    ELSE LET conv == [i \in 1..Len(obs_ids[1]) |-> ConvertObsId(obs_ids[1][i])]
             s1 == [Define(s, {"obs_ids"}) EXCEPT !.obs_ids = Some(conv)]
         IN  Then(_init_alias_tables(s1),
                  LAMBDA t : _init_default_matrices(t, cfg))

-----------------------------------------------------------------------------
(* set_primary_model, core.py 574-610 *)

set_primary_model(s, tag) ==
    IF ~Has(s, {"delay_pmod_init"}) THEN Raise(s, "AttributeError")
    ELSE IF s.delay_pmod_init THEN Ok(s)
    ELSE IF ~Has(s, {"pdg2pref"}) THEN Raise(s, "AttributeError")
    ELSE Ok([Define(s, {"phi0"}) EXCEPT !.phi0 = Some([primary |-> tag])])

-----------------------------------------------------------------------------
(* set_single_primary_particle, core.py 612-698.  E is the energy of the   *)
(* nucleus in the unit of e_grid; E / float(A) is not formed: E per        *)
(* nucleon is compared with a grid energy g as E against A * g.            *)

\* np.argmin(abs(E - E_gr)) for the energy E / A: the first index (from 0)
\* of a grid energy closest to it
ArgMinEnergy(E, A) ==
    LET dist(i) == Abs(E - A * e_grid[i + 1])
    IN  CHOOSE i \in 0..(d - 1) :
            \A j \in 0..(d - 1) : dist(i) < dist(j) \/ (dist(i) = dist(j) /\ i <= j)

\* a set_single_primary_particle that drops the operators, to have them
\* rebuilt for the new initial condition
set_single_primary_particle_rebuilding(s, E, corsika_id) ==
    Ok([s EXCEPT !.phi0 = Some([primary |-> "single", E |-> E]),
                 !.int_m = None, !.dec_m = None])

set_single_primary_particle(s, E, corsika_id) ==
    IF ~Has(s, {"delay_pmod_init"}) THEN Raise(s, "AttributeError")
    ELSE IF s.delay_pmod_init THEN Ok(s)
    ELSE IF ~Has(s, {"pdg2pref", "y"}) THEN Raise(s, "AttributeError")
    ELSE LET Z == corsika_id % 100
             A == IF corsika_id = 14 THEN 1 ELSE (corsika_id - Z) \div 100
             n_protons == IF corsika_id = 14 THEN 1 ELSE Z
             n_neutrons == IF corsika_id = 14 THEN 0 ELSE A - Z
         IN  IF A = 0 THEN Raise(s, "ZeroDivisionError")
             ELSE LET idx_min == ArgMinEnergy(E, A)
                      up == A * e_grid[idx_min + 1] < E
                      idx_up == IF up THEN idx_min + 1 ELSE idx_min
                      idx_lo == IF up THEN idx_min ELSE idx_min - 1
                  IN  IF idx_up >= d THEN Raise(s, "IndexError")
                      ELSE Ok([Define(s, {"phi0"}) EXCEPT !.phi0 =
                                 Some([primary    |-> "single",
                                       E          |-> E,
                                       A          |-> A,
                                       n_protons  |-> n_protons,
                                       n_neutrons |-> n_neutrons,
                                       idx_lo     |-> idx_lo,
                                       idx_up     |-> idx_up])])

\* an index of the state vector as numpy resolves it: a negative index
\* counts from the end
PyIndex(i) == IF i < 0 THEN i + dim_states ELSE i

\* the entries of phi0 (indices from 0) that hold a flux other than zero:
\* after set_primary_model the slices lidx():uidx() of the proton and the
\* neutron (lines 604-607), after set_single_primary_particle the entries
\* lidx() + idx_lo and lidx() + idx_up of the nucleons the nucleus has
\* (lines 693-698); np.zeros(dim_states) gave every other entry
PrimaryCells(phi0) ==
    IF phi0.primary # "single"
    THEN (lidx(2212)..(uidx(2212) - 1)) \cup (lidx(2112)..(uidx(2112) - 1))
    ELSE LET at(pdg) == {PyIndex(lidx(pdg) + phi0.idx_lo),
                         PyIndex(lidx(pdg) + phi0.idx_up)}
         IN  (IF phi0.n_protons > 0 THEN at(2212) ELSE {})
             \cup (IF phi0.n_neutrons > 0 THEN at(2112) ELSE {})

-----------------------------------------------------------------------------
(* set_interaction_model, core.py 527-572 *)

set_interaction_model(s, model, pm_tag, cfg) ==
    IF ~Has(s, {"y"}) THEN Raise(s, "AttributeError")
    ELSE LET s1 == [s EXCEPT !.y_model = model]
         IN  IF ~Has(s1, {"pdg2pref"}) THEN Raise(s1, "AttributeError")
             ELSE LET s2 == [Define(s1, {"Lambda_dec"})
                               EXCEPT !.max_ldec = MaxLdec]
                  IN  Then(_init_default_matrices(s2, cfg),
                           LAMBDA t :
                             IF ~Has(t, {"delay_pmod_init"})
                             THEN Raise(t, "AttributeError")
                             ELSE IF t.delay_pmod_init
                             THEN set_primary_model(
                                    [t EXCEPT !.delay_pmod_init = FALSE], pm_tag)
                             ELSE Ok(t))

-----------------------------------------------------------------------------
(* set_theta_deg, core.py 735-756, and set_atm_model, core.py 700-733 *)

\* a set_theta_deg without the early return of lines 751-753
set_theta_deg_no_cache(s, theta_deg) ==
    IF ~Has(s, {"y"}) THEN Raise(s, "AttributeError")
    ELSE IF s.atm_config = None THEN Raise(s, "Exception")
    ELSE IF ~Has(s, {"atm_model"}) THEN Raise(s, "AttributeError")
    ELSE Did(Ok([Define(s, {"integration_path"}) EXCEPT
                    !.atm_model.theta_deg = theta_deg,
                    !.integration_path = None]),
             "set_theta")

set_theta_deg(s, theta_deg) ==
    IF ~Has(s, {"y"}) THEN Raise(s, "AttributeError")
    ELSE IF s.atm_config = None THEN Raise(s, "Exception")
    ELSE IF ~Has(s, {"atm_model"}) THEN Raise(s, "AttributeError")
    ELSE IF s.atm_model.theta_deg = theta_deg THEN Did(Ok(s), "theta_cached")
    ELSE Did(Ok([Define(s, {"integration_path"}) EXCEPT
                    !.atm_model.theta_deg = theta_deg,
                    !.integration_path = None]),
             "set_theta")

set_atm_model(s, base_model) ==
    IF base_model \notin AtmKinds THEN Raise(s, "Exception")
    ELSE LET s1 == [Define(s, {"atm_model"}) EXCEPT
                       !.atm_model = NewAtmosphere(base_model),
                       !.atm_config = Some(base_model)]
         IN  IF ~Has(s1, {"y"}) THEN Raise(s1, "AttributeError")
             ELSE IF s1.theta_deg # NoAngle THEN set_theta_deg(s1, s1.theta_deg)
             ELSE Ok(s1)

-----------------------------------------------------------------------------
(* _calculate_integration_path, core.py 969-1017 *)

_calculate_integration_path(s, int_grid, grid_var) ==
    IF ~Has(s, {"integration_path"}) THEN Raise(s, "AttributeError")
    ELSE IF /\ s.integration_path # None
            /\ GridEq(int_grid, s.int_grid)
            /\ s.grid_var = grid_var
    THEN Ok(s)
    ELSE LET s1 == [Define(s, {"int_grid"}) EXCEPT
                       !.int_grid = int_grid, !.grid_var = grid_var]
         IN  IF grid_var # "X" THEN Raise(s1, "NotImplementedError")
             ELSE IF ~Has(s1, {"atm_model"}) THEN Raise(s1, "AttributeError")
             ELSE IF s1.atm_model.theta_deg = NoAngle
             THEN Raise(s1, "AttributeError")
             ELSE IF ~Has(s1, {"Lambda_dec"}) THEN Raise(s1, "AttributeError")
             ELSE Did(Ok([s1 EXCEPT !.integration_path =
                            Some(ComputePath(s1.atm_model, s1.max_ldec, int_grid))]),
                      "path_computed")

-----------------------------------------------------------------------------
(* _forward_euler, core.py 920-967 *)

\* a kernel selection whose MKL branch does not test use_sparse
SelectKernel_MKL_any(cfg) ==
    IF cfg.kernel_config = "numpy" THEN Some("kern_numpy")
    ELSE IF cfg.kernel_config = "CUDA" /\ cfg.use_sparse = FALSE
    THEN Some("kern_CUDA_dense")
    ELSE IF cfg.kernel_config = "CUDA" /\ cfg.use_sparse = TRUE
    THEN Some("kern_CUDA_sparse")
    ELSE IF cfg.kernel_config = "MKL" THEN Some("kern_MKL_sparse")
    ELSE None

\* lines 938-958: the kernel chosen, None for the final else
SelectKernel(cfg) ==
    IF cfg.kernel_config = "numpy" THEN Some("kern_numpy")
    ELSE IF cfg.kernel_config = "CUDA" /\ cfg.use_sparse = FALSE
    THEN Some("kern_CUDA_dense")
    ELSE IF cfg.kernel_config = "CUDA" /\ cfg.use_sparse = TRUE
    THEN Some("kern_CUDA_sparse")
    ELSE IF cfg.kernel_config = "MKL" /\ cfg.use_sparse = TRUE
    THEN Some("kern_MKL_sparse")
    ELSE None

\* what a kernel call returns is a function of its arguments (lines
\* 961-962): the solution is recorded by them, a snapshot by the step it
\* was taken after
KernelArgs(s) ==
    [path   |-> s.integration_path[1],
     int_m  |-> s.int_m[1],
     dec_m  |-> s.dec_m[1],
     phi0   |-> s.phi0[1]]

\* a _forward_euler that hands self.phi0 itself to the kernel, which
\* steps it in place, instead of the copy of line 925
_forward_euler_in_place(s, int_grid, grid_var, cfg) ==
    Then(_calculate_integration_path(s, int_grid, grid_var),
         LAMBDA t :
           IF ~Has(t, {"phi0"}) THEN Raise(t, "AttributeError")
           ELSE IF SelectKernel(cfg) = None THEN Raise(t, "Exception")
           ELSE IF ~Has(t, {"int_m"}) THEN Raise(t, "AttributeError")
           ELSE LET k == KernelArgs(t)
                IN  Did(Ok([Define(t, {"solution", "grid_sol"}) EXCEPT
                              !.solution = Some(k),
                              !.grid_sol = Some(k.path[4]),
                              !.phi0 = Some(k)]),
                        "kernel"))

_forward_euler(s, int_grid, grid_var, cfg) ==
    Then(_calculate_integration_path(s, int_grid, grid_var),
         LAMBDA t :
           IF ~Has(t, {"phi0"}) THEN Raise(t, "AttributeError")
           ELSE IF SelectKernel(cfg) = None THEN Raise(t, "Exception")
           ELSE IF ~Has(t, {"int_m"}) THEN Raise(t, "AttributeError")
           ELSE LET k == KernelArgs(t)
                IN  Did(Ok([Define(t, {"solution", "grid_sol"}) EXCEPT
                              !.solution = Some(k),
                              !.grid_sol = Some(k.path[4])]),
                        "kernel"))

-----------------------------------------------------------------------------
(* _odepack, core.py 873-918.  nsucc is the number of r.integrate calls    *)
(* of the while loop after which r.successful() is still true.             *)

\* initial_depth=0.1 and dXstep=1. in fixed point
InitialDepth == Scale \div 10
DXstep == Scale

\* the depths r.integrate is called with in the loop of lines 904-908 when
\* every call succeeds, starting at r.t = t
RECURSIVE OdeLoopTargets(_, _, _)
OdeLoopTargets(t, dXstep, surf) ==
    IF t < surf THEN <<t + dXstep>> \o OdeLoopTargets(t + dXstep, dXstep, surf)
    ELSE <<>>

\* every depth handed to the stepper: the loop's targets up to the first
\* failed call, then X_surf (line 911)
OdeTargets(atm, dXstep, initial_depth, nsucc) ==
    LET all == OdeLoopTargets(initial_depth, dXstep, X_surf(atm))
        n == IF nsucc < Len(all) THEN nsucc + 1 ELSE Len(all)
    IN  Append(SubSeq(all, 1, n), X_surf(atm))

\* the number of stepper calls the loop makes when none fails
OdeLoopCalls(s) ==
    IF Has(s, {"atm_model"}) /\ s.atm_model.theta_deg # NoAngle
    THEN Len(OdeLoopTargets(InitialDepth, DXstep, X_surf(s.atm_model)))
    ELSE 0

_odepack(s, dXstep, initial_depth, nsucc) ==
    IF ~Has(s, {"atm_model"}) THEN Raise(s, "AttributeError")
    ELSE IF ~Has(s, {"phi0"}) THEN Raise(s, "AttributeError")
    ELSE IF s.atm_model.theta_deg = NoAngle THEN Raise(s, "AttributeError")
    ELSE IF ~Has(s, {"int_m"}) THEN Raise(s, "AttributeError")
    ELSE LET all == OdeLoopTargets(initial_depth, dXstep, X_surf(s.atm_model))
             r == [successful |-> nsucc >= Len(all),
                   targets    |-> OdeTargets(s.atm_model, dXstep,
                                             initial_depth, nsucc),
                   atm        |-> s.atm_model,
                   int_m      |-> s.int_m[1],
                   dec_m      |-> s.dec_m[1],
                   phi0       |-> s.phi0[1]]
         IN  Ok([Define(s, {"solution"}) EXCEPT !.solution = Some(r)])

-----------------------------------------------------------------------------
(* solve, core.py 857-871 *)

solve(s, int_grid, grid_var, nsucc, cfg) ==
    IF cfg.integrator # "odepack" THEN _forward_euler(s, int_grid, grid_var, cfg)
    ELSE IF cfg.integrator = "odepack"
    THEN _odepack(s, DXstep, InitialDepth, nsucc)
    ELSE Raise(s, "Exception")

-----------------------------------------------------------------------------
(* __init__, core.py 62-216 *)

\* the primary model every instance is constructed with
PrimaryTag == "H3a"

\* lines 68-102
CtorHead(a) ==
    [Define(Blank, {"y"}) EXCEPT
        !.atm_config = a.atm_model, !.theta_deg = a.theta_deg]

\* lines 110-152
CtorTables(s) ==
    Ok(Define(s, {"pdg2pref"}))

\* lines 203-208
CtorInteraction(s, a, cfg) ==
    IF a.interaction_model # None
    THEN set_interaction_model(
           [Define(s, {"delay_pmod_init"}) EXCEPT !.delay_pmod_init = FALSE],
           a.interaction_model[1], PrimaryTag, cfg)
    ELSE Ok([Define(s, {"delay_pmod_init"}) EXCEPT !.delay_pmod_init = TRUE])

\* lines 210-212
CtorAtmosphere(s, a) ==
    IF a.atm_model # None THEN set_atm_model(s, s.atm_config[1]) ELSE Ok(s)

__init__(a, cfg) ==
    Then(Then(Then(Then(Then(
        set_obs_particles(CtorHead(a), a.obs_ids, cfg),
        CtorTables),
        _init_alias_tables),
        LAMBDA s : CtorInteraction(s, a, cfg)),
        LAMBDA s : CtorAtmosphere(s, a)),
        LAMBDA s : set_primary_model(s, PrimaryTag))

-----------------------------------------------------------------------------
(* get_solution, core.py 443-498.  A particle name is the sequence of the  *)
(* pieces its string has between underscores: 'pi_mu+' is <<"pi", "mu+">>, *)
(* so that split('_') is the sequence itself and prefix + lep_str puts     *)
(* the prefix's piece in front.                                            *)

LeptonName(pdg) ==
    CASE pdg = -13 -> "mu+" [] pdg = 14 -> "numu" [] pdg = -14 -> "antinumu"

\* NCEParticle.name
pname(pdg) ==
    IF is_alias(pdg)
    THEN <<CASE Abs(pdg) \div 100 = 70 -> "pr"
             [] Abs(pdg) \div 100 = 71 -> "pi"
             [] Abs(pdg) \div 100 = 72 -> "k"
             [] OTHER -> "obs",
           LeptonName(AliasBase(pdg))>>
    ELSE IF is_lepton(pdg) THEN <<LeptonName(pdg)>>
    ELSE CASE pdg = 2212 -> <<"p">> [] pdg = 2112 -> <<"n">>
           [] pdg = 211 -> <<"pi+">>
           [] pdg = 321 -> <<"K+">> [] pdg = 411 -> <<"D+">>
           [] OTHER -> <<"eta">>

pname2pref ==
    [n \in {pname(p) : p \in CatalogIds} |->
        CHOOSE p \in CatalogIds : pname(p) = n]

RECURSIVE Pow(_, _)
Pow(b, e) == IF e = 0 THEN 1 ELSE b * Pow(b, e - 1)

\* sol[ref[particle_name].lidx():ref[particle_name].uidx()] * e_grid ** mag
Slice(sol, particle_name, mag) ==
    LET l == lidx(pname2pref[particle_name])
        u == uidx(pname2pref[particle_name])
    IN  [k \in 1..(u - l) |-> sol[l + k] * Pow(e_grid[k], mag)]

\* res += the slices of the names prefix + lep_str, in the order of prefixes;
\* a name that pname2pref lacks is a KeyError
RECURSIVE SumSlices(_, _, _, _, _)
SumSlices(sol, prefixes, lep_str, mag, res) ==
    IF prefixes = <<>> THEN [err |-> "ok", res |-> res]
    ELSE LET particle_name == Head(prefixes) \o <<lep_str>>
         IN  IF particle_name \notin DOMAIN pname2pref
             THEN [err |-> "KeyError", res |-> <<>>]
             ELSE LET part == Slice(sol, particle_name, mag)
                  IN  SumSlices(sol, Tail(prefixes), lep_str, mag,
                                [k \in 1..d |-> res[k] + part[k]])

\* a get_solution whose total_ sum leaves out the kaon category
get_solution_no_kaon(s, particle_name, mag, grid_idx) ==
    IF ~Has(s, {"pdg2pref"}) THEN [err |-> "AttributeError", res |-> <<>>]
    ELSE IF grid_idx = None /\ ~Has(s, {"solution"})
    THEN [err |-> "AttributeError", res |-> <<>>]
    ELSE IF grid_idx # None /\ ~Has(s, {"grid_sol"})
    THEN [err |-> "AttributeError", res |-> <<>>]
    ELSE IF grid_idx # None /\ grid_idx[1] >= Len(s.grid_sol[1])
    THEN [err |-> "IndexError", res |-> <<>>]
    ELSE LET sol == IF grid_idx = None THEN s.solution[1]
                    ELSE s.grid_sol[1][grid_idx[1] + 1]
             zeros == [k \in 1..d |-> 0]
         IN  IF particle_name[1] = "total"
             THEN IF Len(particle_name) < 2
                  THEN [err |-> "IndexError", res |-> <<>>]
                  ELSE SumSlices(sol, << <<"pr">>, <<"pi">>, <<>> >>,
                                 particle_name[2], mag, zeros)
             ELSE IF particle_name[1] = "conv"
             THEN IF Len(particle_name) < 2
                  THEN [err |-> "IndexError", res |-> <<>>]
                  ELSE SumSlices(sol, << <<"pi">>, <<"k">>, <<>> >>,
                                 particle_name[2], mag, zeros)
             ELSE IF particle_name \notin DOMAIN pname2pref
             THEN [err |-> "KeyError", res |-> <<>>]
             ELSE [err |-> "ok", res |-> Slice(sol, particle_name, mag)]

\* the value returned and the exception raised; self is only read
get_solution(s, particle_name, mag, grid_idx) ==
    IF ~Has(s, {"pdg2pref"}) THEN [err |-> "AttributeError", res |-> <<>>]
    ELSE IF grid_idx = None /\ ~Has(s, {"solution"})
    THEN [err |-> "AttributeError", res |-> <<>>]
    ELSE IF grid_idx # None /\ ~Has(s, {"grid_sol"})
    THEN [err |-> "AttributeError", res |-> <<>>]
    ELSE IF grid_idx # None /\ grid_idx[1] >= Len(s.grid_sol[1])
    THEN [err |-> "IndexError", res |-> <<>>]
    ELSE LET sol == IF grid_idx = None THEN s.solution[1]
                    ELSE s.grid_sol[1][grid_idx[1] + 1]
             zeros == [k \in 1..d |-> 0]
         IN  IF particle_name[1] = "total"
             THEN IF Len(particle_name) < 2
                  THEN [err |-> "IndexError", res |-> <<>>]
                  ELSE SumSlices(sol, << <<"pr">>, <<"pi">>, <<"k">>, <<>> >>,
                                 particle_name[2], mag, zeros)
             ELSE IF particle_name[1] = "conv"
             THEN IF Len(particle_name) < 2
                  THEN [err |-> "IndexError", res |-> <<>>]
                  ELSE SumSlices(sol, << <<"pi">>, <<"k">>, <<>> >>,
                                 particle_name[2], mag, zeros)
             ELSE IF particle_name \notin DOMAIN pname2pref
             THEN [err |-> "KeyError", res |-> <<>>]
             ELSE [err |-> "ok", res |-> Slice(sol, particle_name, mag)]

-----------------------------------------------------------------------------
(* _follow_chains, core.py 761-813, and the loops of _fill_matrices,       *)
(* core.py 815-855, one step per hop.  A block of C or D is the list of    *)
(* the terms added to it; a term is the product of its factors, the last   *)
(* factor applied first, and the identity is the empty product.  A factor  *)
(* <<p, idcs, dtr, didcs>> is the block assign_d_idx fills for the decay   *)
(* of p (as hadron or resonance) to dtr, <<"yield", p, sec, idcs>> the     *)
(* block assign_yield_idx fills.  A block never added to is absent.        *)

Block(mat, row, col) ==
    IF <<row, col>> \in DOMAIN mat THEN mat[<<row, col>>] ELSE <<>>

\* propmat[range of row, range of col] += term
AddTo(mat, row, col, term) ==
    [k \in DOMAIN mat \cup {<<row, col>>} |->
        IF k = <<row, col>> THEN Append(Block(mat, row, col), term)
        ELSE mat[k]]

\* lines 346 and 348: block (row, col) of (-I + mat) * Lambda, as the loss
\* term (minus the identity times the inverse lengths of the species, on
\* the diagonal only) and the production terms it is the sum of
OperatorBlock(mat, row, col) ==
    [loss |-> row = col, production |-> Block(mat, row, col)]

\* an alias lookup that never finds an entry
_alias_never(s, mother, daughter) == None

\* the species whose range is returned, or None
_alias(s, mother, daughter) ==
    LET abs_mo == Abs(mother)
        abs_d == Abs(daughter)
        si_d == Sign(daughter)
    IN  IF <<abs_mo, abs_d>> \in TableKeys(s.alias_table)
        THEN Some(si_d * TableGet(s.alias_table, <<abs_mo, abs_d>>))
        ELSE None

_alternate_score(s, mother, daughter) ==
    LET abs_mo == Abs(mother)
        abs_d == Abs(daughter)
        si_d == Sign(daughter)
    IN  IF <<abs_mo, abs_d>> \in TableKeys(s.obs_table)
        THEN Some(si_d * TableGet(s.obs_table, <<abs_mo, abs_d>>))
        ELSE None

\* a loop body that adds the hop's own block, not its product with the
\* blocks of the hops before it
FollowHop_no_product(s, propmat, p, pprod_mat, p_orig, idcs, dtr) ==
    LET term == <<<<p, idcs, dtr, "hadr">>>>
        alias == _alias(s, p, dtr)
        m1 == IF alias = None THEN AddTo(propmat, dtr, p_orig, term)
              ELSE AddTo(propmat, alias[1], p_orig, term)
        alt_score == _alternate_score(s, p, dtr)
    IN  IF alt_score # None THEN AddTo(m1, alt_score[1], p_orig, term)
        ELSE m1

\* lines 768-790: the body of the loop for daughter dtr, on matrix propmat
FollowHop(s, propmat, p, pprod_mat, p_orig, idcs, dtr) ==
    LET term == <<<<p, idcs, dtr, "hadr">>>> \o pprod_mat
        alias == _alias(s, p, dtr)
        m1 == IF alias = None THEN AddTo(propmat, dtr, p_orig, term)
              ELSE AddTo(propmat, alias[1], p_orig, term)
        alt_score == _alternate_score(s, p, dtr)
    IN  IF alt_score # None THEN AddTo(m1, alt_score[1], p_orig, term)
        ELSE m1

\* a loop body without the tests of lines 824 and 830: it follows the
\* decays of a species without daughters and the yields of a species that
\* is no projectile
FillItems_no_skip(p) ==
    <<[mat |-> "D", p |-> p]>>
    \o [i \in 1..Len(secondaries(p)) |->
           [mat |-> "C", p |-> p, sec |-> secondaries(p)[i]]]

\* the calls of _follow_chains that _fill_matrices makes for p, in order
FillItems(p) ==
    (IF daughters(p) # <<>> THEN <<[mat |-> "D", p |-> p]>> ELSE <<>>)
    \o (IF is_projectile(p)
        THEN [i \in 1..Len(secondaries(p)) |->
                 [mat |-> "C", p |-> p, sec |-> secondaries(p)[i]]]
        ELSE <<>>)

RECURSIVE FillPlan(_)
FillPlan(ps) ==
    IF ps = <<>> THEN <<>> ELSE FillItems(Head(ps)) \o FillPlan(Tail(ps))

-----------------------------------------------------------------------------
(* The calls a user makes, with their arguments drawn from small sets.     *)
(* mceq_config.config is read when a method runs and the user may edit it  *)
(* between any two calls, so every call draws the configuration it reads.  *)

\* the number of calls of one behaviour, the constructor included
MaxCalls == 4

InteractionModels == {"SIBYLL2.1", "QGSJET01"}

\* the int_grid arguments: None or an array of depths
Grids == {None, Some(<<10>>), Some(<<10, 10>>), Some(<<10, 20>>)}

GridVars == {"X", "Y"}

\* the obs_ids arguments: None or a list of names and numbers
ObsArgs == {None, Some(<<>>), Some(<<"211">>), Some(<<"K+">>), Some(<<"9999">>)}

Kernels == {"numpy", "CUDA", "MKL", "OpenCL"}

\* the configurations under which solve steps explicitly
EulerConfigs ==
    [integrator : {"euler"}, kernel_config : Kernels, use_sparse : BOOLEAN]

\* the configuration under which solve drives the ODE stepper
OdeConfigs ==
    [integrator : {"odepack"}, kernel_config : {"numpy"}, use_sparse : {TRUE}]

\* the configurations a matrix rebuild reads (use_sparse alone)
BuildConfigs ==
    [integrator : {"euler"}, kernel_config : {"numpy"}, use_sparse : BOOLEAN]

\* the default configuration
DefaultConfigs == {c \in BuildConfigs : c.use_sparse}

\* every way of calling the constructor
CtorArgs ==
    [interaction_model : {None, Some("SIBYLL2.1")},
     atm_model         : {None, Some("CORSIKA")},
     theta_deg         : {NoAngle} \cup Angles,
     obs_ids           : ObsArgs]

\* the documented way: an interaction model, an atmosphere, no observers
PlainCtorArgs ==
    {a \in CtorArgs : /\ a.interaction_model # None
                      /\ a.atm_model # None
                      /\ a.obs_ids = None}

\* the arguments of set_single_primary_particle: the energy of the nucleus
\* and its CORSIKA id (14 the proton, 402 helium)
PrimaryEnergies == {1, 3, 9}
CorsikaIds == {14, 402}

Finish(op, args, o) ==
    /\ ncalls < MaxCalls
    /\ ncalls' = ncalls + 1
    /\ run' = o.run
    /\ call' = [op |-> op, args |-> args, err |-> o.err, ev |-> o.ev]
    /\ UNCHANGED stack

Construct(A, C) ==
    /\ phase = "new"
    /\ \E a \in A, cfg \in C :
         LET o == __init__(a, cfg)
         IN  /\ phase' = IF o.err = "ok" THEN "ready" ELSE "failed"
             /\ Finish("__init__", [a |-> a, cfg |-> cfg], o)

SetObsParticles ==
    /\ phase = "ready"
    /\ \E x \in ObsArgs, cfg \in BuildConfigs :
         Finish("set_obs_particles", [obs_ids |-> x, cfg |-> cfg],
                set_obs_particles(run, x, cfg))
    /\ UNCHANGED phase

SetInteractionModel ==
    /\ phase = "ready"
    /\ \E m \in InteractionModels, cfg \in BuildConfigs :
         Finish("set_interaction_model", [interaction_model |-> m,
                 cfg |-> cfg],
                set_interaction_model(run, m, PrimaryTag, cfg))
    /\ UNCHANGED phase

SetPrimaryModel ==
    /\ phase = "ready"
    /\ Finish("set_primary_model", [tag |-> PrimaryTag],
              set_primary_model(run, PrimaryTag))
    /\ UNCHANGED phase

SetSinglePrimaryParticle ==
    /\ phase = "ready"
    /\ \E E \in PrimaryEnergies, corsika_id \in CorsikaIds :
         Finish("set_single_primary_particle",
                [E |-> E, corsika_id |-> corsika_id],
                set_single_primary_particle(run, E, corsika_id))
    /\ UNCHANGED phase

SetAtmModel ==
    /\ phase = "ready"
    /\ \E k \in AtmKinds \cup {"ISA"} :
         Finish("set_atm_model", [base_model |-> k],
                set_atm_model(run, k))
    /\ UNCHANGED phase

SetThetaDeg ==
    /\ phase = "ready"
    /\ \E t \in Angles :
         Finish("set_theta_deg", [theta_deg |-> t],
                set_theta_deg(run, t))
    /\ UNCHANGED phase

\* solve(int_grid=g, grid_var=v) with an explicit-stepping configuration
SolveEuler ==
    /\ phase = "ready"
    /\ \E g \in Grids, v \in GridVars, cfg \in EulerConfigs :
         Finish("solve", [int_grid |-> g, grid_var |-> v, cfg |-> cfg],
                solve(run, g, v, 0, cfg))
    /\ UNCHANGED phase

\* solve() with config['integrator'] = 'odepack'; the stepper reports
\* failure after n successful calls, or never when n is large enough
SolveOdepack ==
    /\ phase = "ready"
    /\ \E n \in 0..OdeLoopCalls(run), cfg \in OdeConfigs :
         Finish("solve", [nsucc |-> n, cfg |-> cfg],
                solve(run, None, "X", n, cfg))
    /\ UNCHANGED phase

InitState ==
    /\ phase = "new"
    /\ run = Blank
    /\ ncalls = 0
    /\ call = [op |-> "none", args |-> <<>>, err |-> "ok", ev |-> {}]
    /\ stack = <<>>

-----------------------------------------------------------------------------
(* Spec: an instance constructed the documented way, then any sequence of  *)
(* atmosphere, angle and solve calls.                                      *)

Init == InitState

Next ==
    \/ Construct(PlainCtorArgs, DefaultConfigs)
    \/ SetAtmModel
    \/ SetThetaDeg
    \/ SolveEuler
    \/ SolveOdepack

Spec == Init /\ [][Next]_vars

(* SpecSetup: every way of constructing an instance, then any sequence of  *)
(* observer, interaction-model and primary-model calls.                    *)

NextSetup ==
    \/ Construct(CtorArgs, BuildConfigs)
    \/ SetObsParticles
    \/ SetInteractionModel
    \/ SetPrimaryModel

SpecSetup == Init /\ [][NextSetup]_vars

(* SpecGet: an instance is constructed and solved, the kernel returning   *)
(* numbers, and its solution is read back under every name.                *)

\* the state vectors a kernel returns: entry i is (a * i + b) % 5
StateVector(a, b) == [i \in 1..dim_states |-> (a * i + b) % 5]
VectorParams == {<<1, 0>>, <<2, 1>>, <<3, 2>>}

\* lepton names, as get_solution's callers say them
LeptonNames == {"mu+", "numu", "antinumu"}
ParticleNames ==
    {pname(cascade_particles[i]) : i \in 1..Len(cascade_particles)}
    \cup {<<c, L>> : c \in {"total", "conv"}, L \in LeptonNames}
    \cup {<<"total">>, <<"conv", "e+">>, <<"tau">>}

Mags == 0..2
GridIdcs == {None, Some(0), Some(1)}

\* solve() under the default configuration; the kernel of line 961
\* returns the state vector of parameters v and two snapshots
SolveNumeric ==
    /\ phase = "ready"
    /\ \E v \in VectorParams, cfg \in {c \in EulerConfigs :
                                         /\ c.kernel_config = "numpy"
                                         /\ c.use_sparse} :
         LET o == solve(run, Some(<<10, 20>>), "X", 0, cfg)
             n == IF "kernel" \in o.ev
                  THEN [o EXCEPT
                          !.run.solution = Some(StateVector(v[1], v[2])),
                          !.run.grid_sol = Some(<<StateVector(v[1], v[2] + 1),
                                                  StateVector(v[1], v[2] + 2)>>)]
                  ELSE o
         IN  Finish("solve", [int_grid |-> Some(<<10, 20>>),
                     grid_var |-> "X", cfg |-> cfg, kernel_returns |-> v], n)
    /\ UNCHANGED phase

GetSolution ==
    /\ phase = "ready"
    /\ ncalls < MaxCalls
    /\ \E n \in ParticleNames, mag \in Mags, g \in GridIdcs :
         LET o == get_solution(run, n, mag, g)
         IN  call' = [op |-> "get_solution",
                      args |-> [particle_name |-> n, mag |-> mag,
                                grid_idx |-> g],
                      err |-> o.err, ev |-> {}, res |-> o.res]
    /\ ncalls' = ncalls + 1
    /\ UNCHANGED <<phase, run, stack>>

NextGet ==
    \/ Construct({a \in PlainCtorArgs : a.theta_deg = 0}, DefaultConfigs)
    \/ SolveNumeric
    \/ GetSolution

SpecGet == Init /\ [][NextGet]_vars

(* SpecModes: an instance constructed the documented way and solve()    *)
(* under every setting of config['integrator'].                            *)

\* configurations with the explicit integrator, the ODE stepper and a name
\* that is neither
AnyConfigs ==
    [integrator : {"euler", "odepack", "vode"},
     kernel_config : {"numpy", "OpenCL"}, use_sparse : {TRUE}]

\* solve(int_grid=g, grid_var=v); the ODE stepper, if used, never fails
SolveAny ==
    /\ phase = "ready"
    /\ \E g \in {None, Some(<<10>>)}, v \in GridVars, cfg \in AnyConfigs :
         Finish("solve", [int_grid |-> g, grid_var |-> v, cfg |-> cfg],
                solve(run, g, v, OdeLoopCalls(run), cfg))
    /\ UNCHANGED phase

NextModes ==
    \/ Construct(PlainCtorArgs, DefaultConfigs)
    \/ SetThetaDeg
    \/ SolveAny

SpecModes == Init /\ [][NextModes]_vars

(* SpecFrame: an instance constructed the documented way and every call  *)
(* a user makes on it, the kernel and the ODE stepper returning numbers    *)
(* so that the solution can be read back.                                  *)

\* the configurations of the default kernel with each integrator
ModeConfigs ==
    [integrator : {"euler", "odepack"}, kernel_config : {"numpy"},
     use_sparse : {TRUE}]

\* solve(int_grid=[10, 20]) under one of the configurations Cfgs; the
\* kernel (line 961) returns the state vector of parameters v and two
\* snapshots, the stepper (line 918) the state vector
SolveReturning(Cfgs) ==
    /\ phase = "ready"
    /\ \E v \in VectorParams, cfg \in Cfgs :
         LET o == solve(run, Some(<<10, 20>>), "X", OdeLoopCalls(run), cfg)
             n == IF o.err # "ok" THEN o
                  ELSE IF "kernel" \in o.ev
                  THEN [o EXCEPT
                          !.run.solution = Some(StateVector(v[1], v[2])),
                          !.run.grid_sol = Some(<<StateVector(v[1], v[2] + 1),
                                                  StateVector(v[1], v[2] + 2)>>)]
                  ELSE [o EXCEPT
                          !.run.solution = Some(StateVector(v[1], v[2]))]
         IN  Finish("solve", [int_grid |-> Some(<<10, 20>>),
                     grid_var |-> "X", cfg |-> cfg, returns |-> v], n)
    /\ UNCHANGED phase

\* get_solution(n, mag, g) for the names N, magnifications M and snapshot
\* indices G
GetSolutionOf(N, M, G) ==
    /\ phase = "ready"
    /\ ncalls < MaxCalls
    /\ \E n \in N, mag \in M, g \in G :
         LET o == get_solution(run, n, mag, g)
         IN  call' = [op |-> "get_solution",
                      args |-> [particle_name |-> n, mag |-> mag,
                                grid_idx |-> g],
                      err |-> o.err, ev |-> {}, res |-> o.res]
    /\ ncalls' = ncalls + 1
    /\ UNCHANGED <<phase, run, stack>>

NextFrame ==
    \/ Construct(PlainCtorArgs, DefaultConfigs)
    \/ SetInteractionModel
    \/ SetObsParticles
    \/ SetPrimaryModel
    \/ SetSinglePrimaryParticle
    \/ SetThetaDeg
    \/ SetAtmModel
    \/ SolveReturning(ModeConfigs)
    \/ GetSolutionOf({<<"total", "numu">>, <<"mu+">>}, {0}, {None, Some(1)})

SpecFrame == Init /\ [][NextFrame]_vars

(* SpecChain: _fill_matrices as _init_default_matrices calls it at the   *)
(* end of set_obs_particles, for every observer list, hop by hop.          *)

\* the obs_ids lists, already converted to PDG ids
ChainObsIds == {<<>>, <<211>>, <<321>>, <<411>>, <<211, 321>>, <<9999>>}

\* the instance when set_obs_particles(obs_ids) reaches line 525
ChainRun(obs_ids) ==
    LET a == CHOOSE x \in PlainCtorArgs : x.theta_deg = 0
        cfg == CHOOSE c \in DefaultConfigs : TRUE
        s == __init__(a, cfg).run
    IN  _init_alias_tables([s EXCEPT !.obs_ids = Some(obs_ids)]).run

InitChain ==
    /\ phase = "ready"
    /\ \E obs_ids \in ChainObsIds : run = ChainRun(obs_ids)
    /\ ncalls = 0
    /\ call = [op |-> "none", args |-> <<>>, err |-> "ok", ev |-> {}]
    /\ stack = <<>>

Top == stack[Len(stack)]
Pop == SubSeq(stack, 1, Len(stack) - 1)
Step(op, args) == [op |-> op, args |-> args, err |-> "ok", ev |-> {}]

\* lines 817-818
FillMatrices ==
    /\ phase = "ready" /\ stack = <<>>
    /\ run' = [Define(run, {"C"}) EXCEPT !.C = <<>>, !.D = <<>>]
    /\ stack' = <<[fn |-> "_fill_matrices", todo |-> FillPlan(cascade_particles)]>>
    /\ call' = Step("_fill_matrices", <<>>)
    /\ phase' = "filling"
    /\ UNCHANGED ncalls

\* lines 824-828 or 835-855: the next call of _follow_chains
FillNext ==
    /\ stack # <<>> /\ Top.fn = "_fill_matrices" /\ Top.todo # <<>>
    /\ LET it == Head(Top.todo)
           rest == [Top EXCEPT !.todo = Tail(@)]
       IN  IF it.mat = "D"
           THEN /\ stack' = Append(Append(Pop, rest),
                              [fn |-> "_follow_chains", p |-> it.p,
                               pprod_mat |-> <<>>, p_orig |-> it.p,
                               idcs |-> "hadr", propmat |-> "D",
                               left |-> daughters(it.p)])
                /\ run' = run
           ELSE /\ stack' = Append(Append(Pop, rest),
                              [fn |-> "_follow_chains", p |-> it.sec,
                               pprod_mat |-> <<<<"yield", it.p, it.sec, "res">>>>,
                               p_orig |-> it.p,
                               idcs |-> "res", propmat |-> "C",
                               left |-> daughters(it.sec)])
                /\ run' = IF is_resonance(it.sec) THEN run
                          ELSE [run EXCEPT !.C =
                                  AddTo(@, it.sec, it.p,
                                        <<<<"yield", it.p, it.sec, "hadr">>>>)]
    /\ call' = Step("call_follow_chains", Head(Top.todo))
    /\ UNCHANGED <<phase, ncalls>>

\* one pass of the loop of line 768
ChainHop ==
    /\ stack # <<>> /\ Top.fn = "_follow_chains" /\ Top.left # <<>>
    /\ LET f == Top
           dtr == Head(f.left)
           rest == [f EXCEPT !.left = Tail(@)]
       IN  /\ run' = IF f.propmat = "D"
                     THEN [run EXCEPT !.D = FollowHop(run, @, f.p, f.pprod_mat,
                                                      f.p_orig, f.idcs, dtr)]
                     ELSE [run EXCEPT !.C = FollowHop(run, @, f.p, f.pprod_mat,
                                                      f.p_orig, f.idcs, dtr)]
           /\ stack' = IF is_mixed(dtr)
                       THEN Append(Append(Pop, rest),
                              [fn |-> "_follow_chains", p |-> dtr,
                               pprod_mat |-> <<<<f.p, f.idcs, dtr, "res">>>>
                                             \o f.pprod_mat,
                               p_orig |-> f.p_orig, idcs |-> "res",
                               propmat |-> f.propmat, left |-> daughters(dtr)])
                       ELSE Append(Pop, rest)
           /\ call' = Step("_follow_chains",
                           [p |-> f.p, d |-> dtr,
                            p_orig |-> f.p_orig, propmat |-> f.propmat])
    /\ UNCHANGED <<phase, ncalls>>

\* the loop of line 768 is exhausted
ChainReturn ==
    /\ stack # <<>> /\ Top.fn = "_follow_chains" /\ Top.left = <<>>
    /\ stack' = Pop
    /\ call' = Step("return", [from |-> "_follow_chains"])
    /\ UNCHANGED <<phase, run, ncalls>>

\* the loop of line 822 is exhausted
FillReturn ==
    /\ stack # <<>> /\ Top.fn = "_fill_matrices" /\ Top.todo = <<>>
    /\ stack' = Pop
    /\ phase' = "filled"
    /\ call' = Step("return", [from |-> "_fill_matrices"])
    /\ UNCHANGED <<run, ncalls>>

NextChain ==
    \/ FillMatrices
    \/ FillNext
    \/ ChainHop
    \/ ChainReturn
    \/ FillReturn

SpecChain == InitChain /\ [][NextChain]_vars

\* the interpreter runs the next statement of _fill_matrices as long as
\* there is one
SpecChainLive == SpecChain /\ WF_vars(NextChain)

(* SpecPath: _calculate_integration_path(int_grid, 'X') on an instance    *)
(* with no cached path, for every atmosphere and requested depths, one     *)
(* pass of its loop at a time.                                             *)

\* the int_grid arguments: ascending depths up to the surface, and depths
\* repeated, descending, zero or beyond the surface
PathGrids ==
    {None, Some(<<10>>), Some(<<2>>), Some(<<1, 2>>), Some(<<10, 20>>),
     Some(<<7, 8, 30>>), Some(<<30>>), Some(<<10, 10>>), Some(<<20, 10>>),
     Some(<<0, 10>>), Some(<<60>>)}

\* the instance after construction, set_atm_model((kind, ...)) and
\* set_theta_deg(theta_deg)
PathRun(kind, theta_deg) ==
    LET a == CHOOSE x \in PlainCtorArgs : x.theta_deg = NoAngle
        cfg == CHOOSE c \in DefaultConfigs : TRUE
    IN  set_theta_deg(set_atm_model(__init__(a, cfg).run, kind).run,
                      theta_deg).run

InitPath ==
    /\ phase = "ready"
    /\ \E kind \in AtmKinds, theta_deg \in Angles : run = PathRun(kind, theta_deg)
    /\ ncalls = 0
    /\ call = [op |-> "none", args |-> <<>>, err |-> "ok", ev |-> {}]
    /\ stack = <<>>

\* lines 973-995: no path is cached, the arguments are stored and the loop
\* variables initialized
PlanStart ==
    /\ phase = "ready" /\ stack = <<>>
    /\ run.integration_path = None
    /\ \E int_grid \in PathGrids :
         /\ run' = [Define(run, {"int_grid"}) EXCEPT
                       !.int_grid = int_grid, !.grid_var = "X"]
         /\ stack' = <<[fn |-> "_calculate_integration_path",
                        st |-> [X |-> 0, step |-> 0, grid_step |-> 0,
                                dX_vec |-> <<>>, rho_inv_vec |-> <<>>,
                                grid_idcs |-> <<>>]]>>
         /\ call' = Step("_calculate_integration_path",
                         [int_grid |-> int_grid, grid_var |-> "X"])
    /\ phase' = "planning"
    /\ UNCHANGED ncalls

\* one pass of the loop of line 997
PlanStep ==
    /\ stack # <<>> /\ Top.fn = "_calculate_integration_path"
    /\ Top.st.X < X_surf(run.atm_model)
    /\ stack' = <<[Top EXCEPT !.st = PathStep(run.atm_model, run.max_ldec,
                                              run.int_grid, @)]>>
    /\ call' = Step("while", [X |-> Top.st.X])
    /\ UNCHANGED <<phase, run, ncalls>>

\* lines 1012-1017: the loop has ended and the path is stored
PlanReturn ==
    /\ stack # <<>> /\ Top.fn = "_calculate_integration_path"
    /\ ~(Top.st.X < X_surf(run.atm_model))
    /\ run' = [run EXCEPT !.integration_path =
                  Some(<<Len(Top.st.dX_vec), Top.st.dX_vec,
                         Top.st.rho_inv_vec, Top.st.grid_idcs>>)]
    /\ stack' = <<>>
    /\ phase' = "planned"
    /\ call' = Step("return", [from |-> "_calculate_integration_path"])
    /\ UNCHANGED ncalls

NextPath ==
    \/ PlanStart
    \/ PlanStep
    \/ PlanReturn

SpecPath == InitPath /\ [][NextPath]_vars

-----------------------------------------------------------------------------
(* Properties of the life cycle *)

\* the last call was solve in explicit-stepping mode
EulerCall(c) == c.op = "solve" /\ c.args.cfg.integrator # "odepack"

\* the last call was solve in ODE-stepper mode
OdeCall(c) == c.op = "solve" /\ c.args.cfg.integrator = "odepack"

\* C1: every path-planner call (solve in explicit-stepping mode) whose grid
\* variable is not 'X' is rejected, whatever was called before: it never
\* returns normally.  (The claim names the not-implemented error; a call
\* that returns normally contradicts it whichever exception is meant.)
C1_UnsupportedGridVarRejected ==
    (EulerCall(call) /\ call.args.grid_var # "X") => call.err # "ok"

\* C2: a solve in ODE-stepper mode during which the stepper reports failure
\* before the surface is reached leaves a previously stored solution as it
\* was.
C2_FailedOdeKeepsSolution ==
    [][(/\ OdeCall(call')
        /\ call'.args.nsucc < OdeLoopCalls(run)
        /\ Has(run, {"solution"}))
       => run'.solution = run.solution]_vars

\* C3: after a set_atm_model call that installs a density model there is no
\* cached integration path any more.
C3_AtmModelInvalidatesPath ==
    [][(call'.op = "set_atm_model" /\ call'.err = "ok")
       => run'.integration_path = None]_vars

\* the mothers of the current observer set that the catalog knows
CurrentObservers(s) ==
    IF s.obs_ids = None THEN {}
    ELSE {s.obs_ids[1][i] : i \in 1..Len(s.obs_ids[1])} \cap CatalogIds

\* the table and both operators route exactly the current observer set
ObserverRoutingCurrent(s) ==
    /\ TableKeys(s.obs_table) = CurrentObservers(s) \X {12, 13, 14, 16}
    /\ s.int_m # None /\ s.int_m[1].obs_table = s.obs_table
    /\ s.dec_m # None /\ s.dec_m[1].obs_table = s.obs_table

\* C4: after every set_obs_particles(x) on a run that has its operators,
\* x = None included, obs_table holds entries exactly for the catalogued
\* members of the current observer set and int_m and dec_m are built from
\* that table
C4_ObserverSetChangeRebuilds ==
    (/\ call.op = "set_obs_particles" /\ call.err = "ok"
     /\ Has(run, {"obs_table", "int_m"}))
    => ObserverRoutingCurrent(run)

\* C5: a construction with obs_ids other than None completes, and leaves
\* obs_table with the entries of those observer mothers
C5_ConstructWithObservers ==
    (call.op = "__init__" /\ call.args.a.obs_ids # None)
    => /\ call.err = "ok"
       /\ Has(run, {"obs_table"})
       /\ TableKeys(run.obs_table) = CurrentObservers(run) \X {12, 13, 14, 16}

\* a solve that enters the path planner with grid variable X while a path
\* is cached and the atmosphere has its angle
PlannerCallOnCache ==
    /\ EulerCall(call') /\ call'.args.grid_var = "X"
    /\ Has(run, {"integration_path", "atm_model"})
    /\ run.integration_path # None
    /\ run.atm_model.theta_deg # NoAngle

\* C6: a planner call with the cached depths and grid variable leaves
\* integration_path as it is and computes nothing; a call whose depths or
\* grid variable differ from the cached ones computes the path
C6_PathMemoizationExact ==
    [][PlannerCallOnCache =>
         IF /\ call'.args.int_grid = run.int_grid
            /\ call'.args.grid_var = run.grid_var
         THEN /\ run'.integration_path = run.integration_path
              /\ "path_computed" \notin call'.ev
         ELSE "path_computed" \in call'.ev]_vars

\* C7: set_theta_deg with the angle the atmosphere holds returns without
\* error, does not call set_theta and leaves the instance, the cached path
\* included, as it was; with another angle it updates the atmosphere and
\* resets the path, so that every next planner call computes it
C7_SetThetaDegCached ==
    [][(call'.op = "set_theta_deg" /\ Has(run, {"atm_model"})) =>
         /\ call'.err = "ok"
         /\ IF run.atm_model.theta_deg = call'.args.theta_deg
            THEN /\ "set_theta" \notin call'.ev
                 /\ run' = run
            ELSE /\ "set_theta" \in call'.ev
                 /\ run'.atm_model.theta_deg = call'.args.theta_deg
                 /\ run'.integration_path = None
                 /\ \A g \in Grids :
                      "path_computed" \in
                          _calculate_integration_path(run', g, "X").ev]_vars

\* C7 witness: the cached angle was set again while a path was cached
C7_Witness ==
    /\ call.op = "set_theta_deg" /\ "theta_cached" \in call.ev
    /\ Has(run, {"integration_path"}) /\ run.integration_path # None

\* the combinations of kernel and operator representation a solve accepts
SupportedCombination(cfg) ==
    \/ cfg.kernel_config = "numpy"
    \/ cfg.kernel_config = "CUDA"
    \/ cfg.kernel_config = "MKL" /\ cfg.use_sparse

\* C8: an explicit-stepping solve with an unsupported combination fails
\* without invoking the kernel, with the configuration error whenever the
\* planner and the primary flux did not fail first, and leaves solution
\* and grid_sol as they were
C8_UnsupportedKernelRejected ==
    [][(EulerCall(call') /\ ~SupportedCombination(call'.args.cfg)) =>
         /\ call'.err # "ok"
         /\ "kernel" \notin call'.ev
         /\ (/\ _calculate_integration_path(run, call'.args.int_grid,
                                            call'.args.grid_var).err = "ok"
             /\ Has(run, {"phi0"})) => call'.err = "Exception"
         /\ Has(run', {"solution"}) = Has(run, {"solution"})
         /\ Has(run', {"grid_sol"}) = Has(run, {"grid_sol"})
         /\ run'.solution = run.solution
         /\ run'.grid_sol = run.grid_sol]_vars

\* C8 witness: MKL on dense operators was refused while a solution was stored
C8_Witness ==
    /\ call.op = "solve" /\ call.err = "Exception"
    /\ call.args.cfg.kernel_config = "MKL" /\ ~call.args.cfg.use_sparse
    /\ run.solution # None

\* C11: a successful solve() followed at once by solve() with the same
\* arguments under the same configuration succeeds again and leaves the
\* whole instance as the first one left it: the same solution and
\* snapshots, and phi0, int_m, dec_m and the cached path untouched
C11_RepeatedSolveSame ==
    [][(/\ call.op = "solve" /\ call.err = "ok"
        /\ call'.op = "solve" /\ call'.args = call.args)
       => /\ call'.err = "ok"
          /\ run'.solution = run.solution
          /\ run'.grid_sol = run.grid_sol
          /\ run'.phi0 = run.phi0
          /\ run'.int_m = run.int_m /\ run'.dec_m = run.dec_m
          /\ run'.integration_path = run.integration_path
          /\ run' = run]_vars

\* C11 witness: the third call was an explicit-stepping solve with snapshot
\* depths that ran the kernel on the path the second call had computed for
\* the same depths
C11_Witness ==
    /\ ncalls = 3
    /\ call.op = "solve" /\ call.err = "ok"
    /\ "kernel" \in call.ev /\ "path_computed" \notin call.ev
    /\ call.args.int_grid = Some(<<10, 20>>)
    /\ run.int_grid = call.args.int_grid
    /\ Len(run.grid_sol[1]) = 2

\* the calls that rebuild the operators
Rebuilding == {"__init__", "set_interaction_model", "set_obs_particles"}

\* C12: every call other than the constructor, set_interaction_model and
\* set_obs_particles (solve in either mode, get_solution, set_primary_model,
\* set_single_primary_particle, set_theta_deg, set_atm_model), whether it
\* returns or raises, leaves int_m and dec_m as they were
C12_OperatorsFrame ==
    [][call'.op \notin Rebuilding =>
         /\ Has(run', {"int_m"}) = Has(run, {"int_m"})
         /\ run'.int_m = run.int_m
         /\ run'.dec_m = run.dec_m]_vars

\* C12 witness: a solve ran on operators that an earlier call had rebuilt
\* for another interaction model, after the initial condition was replaced
C12_Witness ==
    /\ call.op = "solve" /\ call.err = "ok"
    /\ run.int_m # None /\ run.int_m[1].yields = "QGSJET01"
    /\ run.phi0 # None /\ run.phi0[1].primary = "single"

\* C17: the depths a solve in ODE-stepper mode hands to the stepper, one
\* r.integrate call after the other, are strictly increasing from the
\* initial depth on, none exceeds the surface depth X_surf, and the last one
\* is X_surf.  (Stated for the solves whose stepper never reports failure;
\* C2 is about the others.)
C17_OdeTargetsForward ==
    (OdeCall(call) /\ call.err = "ok" /\ run.solution[1].successful)
    => LET targets == run.solution[1].targets
           surf == X_surf(run.atm_model)
       IN  /\ InitialDepth < targets[1]
           /\ \A i \in 1..Len(targets), j \in 1..Len(targets) :
                i < j => targets[i] < targets[j]
           /\ \A i \in 1..Len(targets) : targets[i] <= surf
           /\ targets[Len(targets)] = surf

\* C18: solve() does what _odepack does when config['integrator'] is
\* 'odepack' and what _forward_euler does when it is 'euler'; with any other
\* name it raises and has run no kernel and stored no solution.  (The claim
\* names the exception of line 869; a solve that returns normally
\* contradicts it whichever exception is meant.)
C18_IntegratorSelection ==
    [][call'.op = "solve" =>
         LET a == call'.args
             o == [run |-> run', err |-> call'.err, ev |-> call'.ev]
         IN  IF a.cfg.integrator = "odepack"
             THEN o = _odepack(run, DXstep, InitialDepth, OdeLoopCalls(run))
             ELSE IF a.cfg.integrator = "euler"
             THEN o = _forward_euler(run, a.int_grid, a.grid_var, a.cfg)
             ELSE /\ call'.err # "ok"
                  /\ "kernel" \notin call'.ev
                  /\ run'.solution = run.solution]_vars

\* C19: a set_atm_model that follows a successful set_theta_deg(a) leaves
\* the new atmosphere set to the angle a
C19_AngleSurvivesAtmModel ==
    [][(/\ call.op = "set_theta_deg" /\ call.err = "ok"
        /\ call'.op = "set_atm_model" /\ call'.err = "ok")
       => run'.atm_model.theta_deg = call.args.theta_deg]_vars

\* C20: after every successful solve, in either mode, the snapshots that
\* get_solution reads for a grid_idx (self.grid_sol, if it holds any) were
\* stored by that solve, as was the solution it reads without grid_idx;
\* only the kernel call of line 961 stores snapshots.  (Stated for the
\* solves whose stepper, if used, never reports failure.)
C20_SnapshotsOfSameSolve ==
    [][(/\ call'.op = "solve" /\ call'.err = "ok"
        /\ OdeCall(call') => run'.solution[1].successful
        /\ Has(run', {"grid_sol"}) /\ run'.grid_sol # Some(<<>>))
       => /\ "kernel" \in call'.ev
          /\ run'.grid_sol = Some(run'.solution[1].path[4])]_vars

\* the entries of the state vector in the blocks of the proton and the
\* neutron
NucleonCells ==
    (lidx(2212)..(uidx(2212) - 1)) \cup (lidx(2112)..(uidx(2112) - 1))

\* C21: whenever an initial flux is stored, its non-zero entries lie in the
\* blocks of the proton and the neutron; after set_single_primary_particle
\* the two bin offsets are adjacent, idx_up = idx_lo + 1, both lie in
\* 0..d-1, and the non-zero entries are the entries at these offsets of the
\* two blocks, so that no index wraps around below bin 0 or leaves the block
C21_PrimaryInNucleonBlocks ==
    (Has(run, {"phi0"}) /\ run.phi0 # None) =>
        LET phi0 == run.phi0[1]
        IN  /\ PrimaryCells(phi0) \subseteq NucleonCells
            /\ phi0.primary = "single" =>
                  /\ phi0.idx_lo \in 0..(d - 1)
                  /\ phi0.idx_up \in 0..(d - 1)
                  /\ phi0.idx_up = phi0.idx_lo + 1
                  /\ PrimaryCells(phi0) \subseteq
                        {lidx(p) + i : p \in {2212, 2112},
                                      i \in {phi0.idx_lo, phi0.idx_up}}

-----------------------------------------------------------------------------
(* Properties of get_solution *)

\* a + b, bin by bin
VecAdd(a, b) == [k \in 1..d |-> a[k] + b[k]]

\* get_solution of one category of lepton L, with the arguments of the
\* last call
Category(s, prefix, L) ==
    get_solution(s, prefix \o <<L>>, call'.args.mag, call'.args.grid_idx).res

\* C9: get_solution changes nothing of the instance; 'total_' + L is bin by
\* bin the sum of the categories 'pr_', 'pi_', 'k_' of L and L itself, and
\* 'conv_' + L the sum of 'pi_', 'k_' and L, read from the same vector
C9_TotalAndConvAreSums ==
    [][call'.op = "get_solution" =>
         /\ run' = run
         /\ \A L \in LeptonNames :
              /\ (call'.args.particle_name = <<"total", L>>
                    /\ \/ call'.args.grid_idx = None /\ Has(run, {"solution"})
                       \/ call'.args.grid_idx # None /\ Has(run, {"grid_sol"}))
                 => /\ call'.err = "ok"
                    /\ call'.res =
                         VecAdd(VecAdd(VecAdd(Category(run, <<"pr">>, L),
                                              Category(run, <<"pi">>, L)),
                                       Category(run, <<"k">>, L)),
                                Category(run, <<>>, L))
              /\ (call'.args.particle_name = <<"conv", L>>
                    /\ \/ call'.args.grid_idx = None /\ Has(run, {"solution"})
                       \/ call'.args.grid_idx # None /\ Has(run, {"grid_sol"}))
                 => /\ call'.err = "ok"
                    /\ call'.res =
                         VecAdd(VecAdd(Category(run, <<"pi">>, L),
                                       Category(run, <<"k">>, L)),
                                Category(run, <<>>, L))]_vars

\* C9 witness: total_numu was read from the second snapshot with a
\* magnification, and the kaon category contributes to it
C9_Witness ==
    /\ call.op = "get_solution" /\ call.err = "ok"
    /\ call.args.particle_name = <<"total", "numu">>
    /\ call.args.grid_idx = Some(1) /\ call.args.mag = 2
    /\ \E k \in 1..d :
         get_solution(run, <<"k", "numu">>, 2, Some(1)).res[k] > 0

-----------------------------------------------------------------------------
(* Properties of the path planner *)

\* the depth reached after the first n steps of a path
RECURSIVE DepthAfter(_, _)
DepthAfter(dX, n) == IF n = 0 THEN 0 ELSE DepthAfter(dX, n - 1) + dX[n]

\* the requested depths as a list (None requests none), and whether they
\* are strictly ascending and all within (0, surf]
Requested(int_grid) == IF int_grid = None THEN <<>> ELSE int_grid[1]
AscendingWithin(g, surf) ==
    /\ \A i \in 1..Len(g) : 0 < g[i] /\ g[i] <= surf
    /\ \A i \in 1..Len(g), j \in 1..Len(g) : i < j => g[i] < g[j]

\* C13: for strictly ascending depths within (0, X_surf] the planned path
\* has one snapshot index per requested depth, in the requested order; the
\* step at the i-th index is no longer than the regular step and ends at
\* the i-th depth exactly; every other step starting at depth X has the
\* size 1 / (max_ldec * rho_inv(X)), and every step is paired with rho_inv(X)
C13_SnapshotSteps ==
    (/\ phase = "planned"
     /\ AscendingWithin(Requested(run.int_grid), X_surf(run.atm_model)))
    => LET g == Requested(run.int_grid)
           path == run.integration_path[1]
           nsteps == path[1]
           dX == path[2]
           rho_inv == path[3]
           grid_idcs == path[4]
           start(j) == DepthAfter(dX, j)
           regular(j) == Scale \div (run.max_ldec
                                       * r_X2rho(run.atm_model, start(j)))
           recorded == {grid_idcs[i] : i \in 1..Len(grid_idcs)}
       IN  /\ Len(dX) = nsteps /\ Len(rho_inv) = nsteps
           /\ Len(grid_idcs) = Len(g)
           /\ \A i \in 1..Len(g) :
                /\ grid_idcs[i] \in 0..(nsteps - 1)
                /\ DepthAfter(dX, grid_idcs[i] + 1) = g[i]
                /\ dX[grid_idcs[i] + 1] <= regular(grid_idcs[i])
           /\ \A i \in 1..Len(g), j \in 1..Len(g) :
                i < j => grid_idcs[i] < grid_idcs[j]
           /\ \A j \in 0..(nsteps - 1) :
                /\ rho_inv[j + 1] = r_X2rho(run.atm_model, start(j))
                /\ j \notin recorded => dX[j + 1] = regular(j)

\* C13 witness: three depths were requested, the last one the surface depth
\* and the first two within one regular step, and the step recorded for the
\* first one was shortened
C13_Witness ==
    /\ phase = "planned"
    /\ run.int_grid = Some(<<7, 8, 30>>)
    /\ X_surf(run.atm_model) = 30
    /\ Len(run.integration_path[1][4]) = 3
    /\ LET path == run.integration_path[1]
           j == path[4][1]
       IN  path[2][j + 1] < Scale \div (run.max_ldec
                                 * r_X2rho(run.atm_model, DepthAfter(path[2], j)))

\* C22: for every int_grid the planner takes, the path is well-formed, while
\* it is built (the steps appended are the steps the path keeps) and when it
\* is stored: as many step sizes and inverse densities as steps, every step
\* size above zero, so that the depth grows from 0 with every step, the
\* snapshot indices strictly increasing and among the steps, and the stored
\* path reaching the surface depth
C22_PathWellFormed ==
    (phase \in {"planning", "planned"}) =>
        LET path == IF phase = "planned" THEN run.integration_path[1]
                    ELSE <<Top.st.step, Top.st.dX_vec, Top.st.rho_inv_vec,
                           Top.st.grid_idcs>>
            nsteps == path[1]
            dX == path[2]
            rho_inv == path[3]
            grid_idcs == path[4]
        IN  /\ Len(dX) = nsteps /\ Len(rho_inv) = nsteps
            /\ \A j \in 1..nsteps : dX[j] > 0
            /\ \A j \in 1..nsteps : DepthAfter(dX, j - 1) < DepthAfter(dX, j)
            /\ \A i \in 1..Len(grid_idcs) : grid_idcs[i] \in 0..(nsteps - 1)
            /\ \A i \in 1..Len(grid_idcs), j \in 1..Len(grid_idcs) :
                 i < j => grid_idcs[i] < grid_idcs[j]
            /\ phase = "planned" =>
                 DepthAfter(dX, nsteps) >= X_surf(run.atm_model)

-----------------------------------------------------------------------------
(* Properties of the chain resolver *)

\* C10: a hop from mother p to daughter dtr adds its term, in the column
\* of p_orig, to the alias species' range of the daughter's sign and not to
\* the daughter's own range when (|p|, |dtr|) has an alias entry, to the
\* daughter's own range when it has none, and to the observer range as
\* well when it has an observer entry; no other block changes
C10_HopRouting ==
    [][call'.op = "_follow_chains" =>
         LET f == Top
             dtr == Head(f.left)
             key == <<Abs(f.p), Abs(dtr)>>
             term == <<<<f.p, f.idcs, dtr, "hadr">>>> \o f.pprod_mat
             old == IF f.propmat = "D" THEN run.D ELSE run.C
             new == IF f.propmat = "D" THEN run'.D ELSE run'.C
             hasAlias == key \in TableKeys(run.alias_table)
             hasObs == key \in TableKeys(run.obs_table)
             aliasRow == Sign(dtr) * TableGet(run.alias_table, key)
             obsRow == Sign(dtr) * TableGet(run.obs_table, key)
             rows == (IF hasAlias THEN {aliasRow} ELSE {dtr})
                     \cup (IF hasObs THEN {obsRow} ELSE {})
             grew(row) == Block(new, row, f.p_orig)
                            = Append(Block(old, row, f.p_orig), term)
         IN  /\ hasAlias => grew(aliasRow)
                            /\ Block(new, dtr, f.p_orig) = Block(old, dtr, f.p_orig)
             /\ ~hasAlias => grew(dtr)
             /\ hasObs => grew(obsRow)
             /\ \A row \in CatalogIds, col \in CatalogIds :
                  (col # f.p_orig \/ row \notin rows)
                  => Block(new, row, col) = Block(old, row, col)
             /\ IF f.propmat = "D" THEN run'.C = run.C ELSE run'.D = run.D]_vars

\* C10 witness: the hop pi+ -> numu was made with the pion observed; its
\* term is in the pi_numu and obs_numu ranges and not in the numu range
C10_Witness ==
    /\ call.op = "_follow_chains"
    /\ call.args.p = 211 /\ call.args.d = 14 /\ call.args.propmat = "D"
    /\ <<211, 14>> \in TableKeys(run.obs_table)
    /\ Block(run.D, 7114, 211) # <<>>
    /\ Block(run.D, 7314, 211) # <<>>
    /\ Block(run.D, 14, 211) = <<>>

\* the number of hops of the longest decay chain that starts at p
RECURSIVE ChainLength(_)
ChainLength(p) ==
    LET ds == {daughters(p)[i] : i \in 1..Len(daughters(p))}
    IN  IF ds = {} THEN 0
        ELSE 1 + CHOOSE n \in {ChainLength(x) : x \in ds} :
                     \A x \in ds : ChainLength(x) <= n

\* the longest decay chain of the catalog
LongestChain ==
    CHOOSE n \in {ChainLength(p) : p \in CatalogIds} :
        \A p \in CatalogIds : ChainLength(p) <= n

\* the chains <<p, d1, ..., dn>> of 1 to n hops in which d1..d(n-1) are mixed
RECURSIVE Chains(_, _)
Chains(p, n) ==
    IF n = 0 THEN {}
    ELSE LET ds == {daughters(p)[i] : i \in 1..Len(daughters(p))}
         IN  {<<p, x>> : x \in ds}
             \cup UNION {{<<p>> \o c : c \in Chains(x, n - 1)} :
                            x \in {y \in ds : is_mixed(y)}}

\* the product of the hop blocks along chain c, applied to the block entry:
\* the mother of the first hop is indexed by idcs and every later one as
\* resonance, the last daughter as hadron and every earlier one as resonance
ChainTerm(c, entry, idcs) ==
    [i \in 1..(Len(c) - 1) |->
        LET k == Len(c) - i
        IN  <<c[k], IF k = 1 THEN idcs ELSE "res",
              c[k + 1], IF k = Len(c) - 1 THEN "hadr" ELSE "res">>] \o entry

\* the species in whose ranges the last hop of chain c is entered: the alias
\* species or else the daughter itself, and the observer species if any
ChainRows(s, c) ==
    LET m == c[Len(c) - 1]
        dn == c[Len(c)]
        key == <<Abs(m), Abs(dn)>>
    IN  (IF key \in TableKeys(s.alias_table)
         THEN {Sign(dn) * TableGet(s.alias_table, key)} ELSE {dn})
        \cup (IF key \in TableKeys(s.obs_table)
              THEN {Sign(dn) * TableGet(s.obs_table, key)} ELSE {})

\* the terms of all chains from p that end in the range of row
ChainSum(s, p, entry, idcs, row) ==
    {ChainTerm(c, entry, idcs) :
        c \in {x \in Chains(p, LongestChain + 1) : row \in ChainRows(s, x)}}

Cascade == {cascade_particles[i] : i \in 1..Len(cascade_particles)}

\* block (row, col) of D: the chains from col, applied to the identity
ExpectedD(s, row, col) ==
    IF col \in Cascade THEN ChainSum(s, col, <<>>, "hadr", row) ELSE {}

\* block (row, col) of C: the yield of each non-resonant secondary and, for
\* every secondary, the chains from it applied to its yield as resonance
ExpectedC(s, row, col) ==
    IF col \in Cascade /\ is_projectile(col)
    THEN LET secs == {secondaries(col)[i] : i \in 1..Len(secondaries(col))}
         IN  {<<<<"yield", col, x, "hadr">>>> :
                 x \in {y \in secs : y = row /\ ~is_resonance(y)}}
             \cup UNION {ChainSum(s, x, <<<<"yield", col, x, "res">>>>,
                                  "res", row) : x \in secs}
    ELSE {}

\* the list of terms added to a block is the sum of the set of terms
SumOf(block, terms) ==
    /\ {block[i] : i \in 1..Len(block)} = terms
    /\ Len(block) = Cardinality(terms)

\* C14: when _fill_matrices has returned, every block of D and of C holds
\* exactly the sum, over the chains from the column's species (for C: from
\* its secondaries) through mixed species to a daughter entered in the row's
\* range, of the product of the hop blocks applied to the entry block; a
\* hop recurses into the daughter exactly when the daughter is mixed, with
\* the same p_orig, and changes no block outside p_orig's columns
C14_ChainProducts ==
    /\ [](phase = "filled" =>
            \A row \in CatalogIds, col \in CatalogIds :
                /\ SumOf(Block(run.D, row, col), ExpectedD(run, row, col))
                /\ SumOf(Block(run.C, row, col), ExpectedC(run, row, col)))
    /\ [][call'.op = "_follow_chains" =>
            LET f == Top
                dtr == Head(f.left)
            IN  /\ IF is_mixed(dtr)
                   THEN /\ Len(stack') = Len(stack) + 1
                        /\ stack'[Len(stack')].p = dtr
                        /\ stack'[Len(stack')].p_orig = f.p_orig
                   ELSE Len(stack') = Len(stack)
                /\ \A row \in CatalogIds, col \in CatalogIds \ {f.p_orig} :
                     /\ Block(run'.D, row, col) = Block(run.D, row, col)
                     /\ Block(run'.C, row, col) = Block(run.C, row, col)]_vars

\* C14 witness: the fill has ended and the chain D+ -> K+ -> pi+ -> numu of
\* three hops is entered in the pi_numu range of the D+ column, the chain
\* D+ -> numu of one hop in its pr_numu range
C14_Witness ==
    /\ phase = "filled"
    /\ ChainTerm(<<411, 321, 211, 14>>, <<>>, "hadr")
         \in {Block(run.D, 7114, 411)[i] :
                 i \in 1..Len(Block(run.D, 7114, 411))}
    /\ Block(run.D, 7014, 411) = <<ChainTerm(<<411, 14>>, <<>>, "hadr")>>

\* C15: the diagonal block of every cascade species is the loss term alone,
\* in the interaction and in the decay operator: no production term is
\* added to it.  (Blocks only grow during the fill, so a production term
\* found in a diagonal block at any step is in the assembled operator.)
C15_DiagonalPureLoss ==
    \A p \in Cascade :
        /\ OperatorBlock(run.C, p, p) = [loss |-> TRUE, production |-> <<>>]
        /\ OperatorBlock(run.D, p, p) = [loss |-> TRUE, production |-> <<>>]

\* the position of a species in cascade_particles
CascadeIndex(p) ==
    CHOOSE i \in 1..Len(cascade_particles) : cascade_particles[i] = p

\* the frames of _follow_chains on the stack
Nesting == Cardinality({i \in 1..Len(stack) : stack[i].fn = "_follow_chains"})

\* C16: _fill_matrices returns; until then the calls of _follow_chains are
\* never nested deeper than the longest decay chain of the catalog, the
\* species still to visit are in the order of cascade_particles (none is
\* visited again), and _follow_chains is called for the decays of a species
\* only if it has daughters and for its yields only if it is a projectile
C16_AssemblyTerminates ==
    /\ [](Nesting <= LongestChain + 1)
    /\ [](stack # <<>> =>
            LET todo == stack[1].todo
            IN  \A i \in 1..Len(todo), j \in 1..Len(todo) :
                    i < j => CascadeIndex(todo[i].p) <= CascadeIndex(todo[j].p))
    /\ [][call'.op = "call_follow_chains" =>
            LET it == call'.args
            IN  /\ call'.err = "ok"
                /\ it.mat = "D" => daughters(it.p) # <<>>
                /\ it.mat = "C" => is_projectile(it.p)]_vars
    /\ <>(phase = "filled" /\ stack = <<>>)

\* C16 witness: _fill_matrices has returned after following the chain
\* D+ -> K+ -> pi+ -> numu, and the stable proton got no decay block
C16_Witness ==
    /\ phase = "filled" /\ stack = <<>>
    /\ Block(run.D, 7114, 411) # <<>>
    /\ \A row \in CatalogIds : Block(run.D, row, 2212) = <<>>

=============================================================================
